---- MODULE Spec2Model ----
(***************************************************************************)
(* Keanu's candy store: payment methods (models/payment.py) and the user   *)
(* with its credential, cart and checkout (models/person.py).              *)
(*                                                                         *)
(* Strings are sequences of one-character strings.  Amounts of money are   *)
(* whole cents.  A receipt id is a uuid4: a draw from the ids not issued   *)
(* so far.  sha256 is modelled as injective: a digest is its preimage.     *)
(***************************************************************************)
EXTENDS Integers, Sequences, FiniteSets, TLC

VARIABLES
    methods,          \* slot -> payment method object (payment.py)
    email,            \* Person.email
    pw_salt,          \* User._pw_salt   (hex text)
    pw_digest,        \* User._pw_digest
    orders,           \* User._orders
    cart,             \* User._cart: None or the cart's lines
    last_login_at,    \* User.last_login_at: None or a time
    now,              \* the wall clock
    accepted,         \* history: the plaintext of the last accepted password
    ret               \* the last call: its name, arguments, result or exception

vars == <<methods, email, pw_salt, pw_digest, orders, cart, last_login_at,
          now, accepted, ret>>

userVars == <<email, pw_salt, pw_digest, orders, cart, last_login_at, accepted>>

\* Optional[T]: None is the empty sequence, a value v is <<v>>.
None == <<>>
Some(v) == <<v>>

-----------------------------------------------------------------------------
(* Bounds of the model *)

MaxReceipts == 3      \* size of the pool receipt ids are drawn from
MaxPwLen == 7         \* longest password tried
MaxClock == 2         \* the clock stops here
MaxItems == 3         \* pieces of candy a user puts in the cart, in all

(* Constants of the program *)

MinCardDigits == 13
MaxCardDigits == 19
MinPasswordLen == 6
SaltLen == 16

-----------------------------------------------------------------------------
(* Characters and strings *)

Whitespace == {" "}

AsciiDigits == {"0", "1", "2", "3", "4", "5", "6", "7", "8", "9"}

\* Characters of Unicode category Nd: the ASCII digits and, among others,
\* ARABIC-INDIC DIGIT THREE and FULLWIDTH DIGIT ONE.
UnicodeDigits == AsciiDigits \cup {"U+0663", "U+FF11"}

\* str.lower() on the alphabet used.
LowerChar(c) ==
    CASE c = "A" -> "a"
      [] c = "B" -> "b"
      [] c = "C" -> "c"
      [] OTHER -> c

Lower(s) == [i \in 1..Len(s) |-> LowerChar(s[i])]

RECURSIVE LStrip(_)
LStrip(s) ==
    IF s # <<>> /\ Head(s) \in Whitespace THEN LStrip(Tail(s)) ELSE s

RECURSIVE RStrip(_)
RStrip(s) ==
    IF s # <<>> /\ s[Len(s)] \in Whitespace
    THEN RStrip(SubSeq(s, 1, Len(s) - 1))
    ELSE s

\* str.strip()
Strip(s) == RStrip(LStrip(s))

Repeat(c, n) == [i \in 1..n |-> c]

-----------------------------------------------------------------------------
(* models/payment.py *)

MethodIds == {"m1", "m2"}

ReceiptIds == 1..MaxReceipts

\* What a call returned or raised.  Fields a call does not use keep these
\* values.
NoOrder == [total_amount |-> 0, lines |-> <<>>, payment_outcome |-> ""]

Call(op) ==
    [op |-> op, method |-> "", amount |-> 0, text |-> <<>>, password |-> <<>>,
     quantity |-> 0, raised |-> "", ok |-> FALSE, receipt |-> 0,
     out |-> <<>>, order |-> NoOrder]

\* PaymentMethod.__init__
PaymentMethod(method_name) ==
    [kind |-> "PaymentMethod", method_name |-> method_name, card_number |-> <<>>, email |-> <<>>,
     is_valid |-> TRUE, transaction_history |-> <<>>]

\* re.fullmatch(r"\d{13,19}", card_number): \d of a str pattern matches every
\* Unicode decimal digit.
validate_card(card_number) ==
    /\ Len(card_number) >= MinCardDigits
    /\ Len(card_number) <= MaxCardDigits
    /\ \A i \in 1..Len(card_number) : card_number[i] \in UnicodeDigits

\* CreditCard.__init__
CreditCard(card_number) ==
    [PaymentMethod("Credit Card") EXCEPT
        !.kind = "CreditCard",
        !.card_number = card_number,
        !.is_valid = validate_card(card_number)]

\* re.fullmatch(r"[^@]+@[^@]+\.[^@]+", email)
validate_email(e) ==
    \E k \in 2..Len(e) :
        /\ e[k] = "@"
        /\ \A i \in 1..Len(e) : i # k => e[i] # "@"
        /\ \E j \in (k + 2)..(Len(e) - 1) : e[j] = "."

\* PayPal.__init__
PayPal(e) ==
    [PaymentMethod("PayPal") EXCEPT
        !.kind = "PayPal",
        !.email = e,
        !.is_valid = validate_email(e)]

\* Every receipt id recorded so far, on any payment method.
IssuedReceipts ==
    UNION {{methods[m].transaction_history[i].receipt :
                i \in 1..Len(methods[m].transaction_history)} : m \in MethodIds}

\* Receipt ids drawn with no regard to the ids in use.
generate_receipt_id_any == ReceiptIds

\* PaymentMethod.generate_receipt_id: the ids str(uuid.uuid4()) may return.
generate_receipt_id == ReceiptIds \ IssuedReceipts

Record(type, amount, receipt) ==
    [type |-> type, amount |-> amount, receipt |-> receipt]

\* What a call on a payment method may do: the object afterwards, and what
\* the call returned or raised.
Outcome(pm, raised, ok, receipt, out) ==
    [pm |-> pm, raised |-> raised, ok |-> ok, receipt |-> receipt, out |-> out]

Charged(pm, amount) ==
    {Outcome([pm EXCEPT !.transaction_history =
                  Append(@, Record("payment", amount, r))],
             "", TRUE, r, <<>>) : r \in generate_receipt_id}

\* PaymentMethod.process_payment
PaymentMethod_process_payment(pm, amount) ==
    {Outcome(pm, "NotImplementedError", FALSE, 0, <<>>)}

\* The payment with the card number validated again.
CreditCard_process_payment_revalidating(pm, amount) ==
    IF ~validate_card(pm.card_number)
    THEN {Outcome(pm, "", FALSE, 0, <<>>)}
    ELSE Charged(pm, amount)

\* CreditCard.process_payment
CreditCard_process_payment(pm, amount) ==
    IF ~pm.is_valid
    THEN {Outcome(pm, "", FALSE, 0, <<>>)}
    ELSE Charged(pm, amount)

\* The payment without the test of is_valid.
PayPal_process_payment_unchecked(pm, amount) == Charged(pm, amount)

\* PayPal.process_payment
PayPal_process_payment(pm, amount) ==
    IF ~pm.is_valid
    THEN {Outcome(pm, "", FALSE, 0, <<>>)}
    ELSE Charged(pm, amount)

\* pm.process_payment(amount), dispatched on the object's class.
process_payment_of(pm, amount) ==
    CASE pm.kind = "CreditCard" -> CreditCard_process_payment(pm, amount)
      [] pm.kind = "PayPal" -> PayPal_process_payment(pm, amount)
      [] OTHER -> PaymentMethod_process_payment(pm, amount)

DigitChars == <<"0", "1", "2", "3", "4", "5", "6", "7", "8", "9">>

\* str(n) of a natural number.
RECURSIVE Decimal(_)
Decimal(n) ==
    IF n < 10 THEN <<DigitChars[n + 1]>>
    ELSE Append(Decimal(n \div 10), DigitChars[(n % 10) + 1])

\* f"{amount:.2f}" of an amount of whole cents.
Format2f(amount) ==
    Decimal(amount \div 100)
        \o <<".", DigitChars[((amount % 100) \div 10) + 1],
             DigitChars[(amount % 10) + 1]>>

\* The refund refused on a method that is not valid.
refund_of_valid_only(pm, amount) ==
    IF ~pm.is_valid
    THEN {Outcome(pm, "", FALSE, 0, <<"Refund refused">>)}
    ELSE {Outcome([pm EXCEPT !.transaction_history =
                       Append(@, Record("refund", amount, r))],
                  "", FALSE, r,
                  <<"Refund of $">> \o Format2f(amount)
                      \o <<" issued. Receipt ID: ">> \o Decimal(r))
             : r \in ReceiptIds \ IssuedReceipts}

\* PaymentMethod.refund
refund_of(pm, amount) ==
    {Outcome([pm EXCEPT !.transaction_history =
                  Append(@, Record("refund", amount, r))],
             "", FALSE, r,
             <<"Refund of $">> \o Format2f(amount)
                 \o <<" issued. Receipt ID: ">> \o Decimal(r))
        : r \in generate_receipt_id}

Amounts == {5, 1250}

process_payment(m, amount) ==
    /\ \E o \in process_payment_of(methods[m], amount) :
        /\ methods' = [methods EXCEPT ![m] = o.pm]
        /\ ret' = [Call("process_payment") EXCEPT
                       !.method = m, !.amount = amount, !.raised = o.raised,
                       !.ok = o.ok, !.receipt = o.receipt]
    /\ UNCHANGED <<userVars, now>>

refund(m, amount) ==
    /\ \E o \in refund_of(methods[m], amount) :
        /\ methods' = [methods EXCEPT ![m] = o.pm]
        /\ ret' = [Call("refund") EXCEPT
                       !.method = m, !.amount = amount, !.receipt = o.receipt,
                       !.out = o.out]
    /\ UNCHANGED <<userVars, now>>

\* card.card_number = number: the attribute is public and __init__ alone
\* computes is_valid.
assign_card_number(m, number) ==
    /\ methods[m].kind = "CreditCard"
    /\ methods' = [methods EXCEPT ![m].card_number = number]
    /\ ret' = [Call("assign_card_number") EXCEPT !.method = m, !.text = number]
    /\ UNCHANGED <<userVars, now>>

\* paypal.email = e
assign_email(m, e) ==
    /\ methods[m].kind = "PayPal"
    /\ methods' = [methods EXCEPT ![m].email = e]
    /\ ret' = [Call("assign_email") EXCEPT !.method = m, !.text = e]
    /\ UNCHANGED <<userVars, now>>

-----------------------------------------------------------------------------
(* models/person.py: the credential *)

\* EMAIL_RE = ^[^@\s]+@[^@\s]+\.[^@\s]+$, used with fullmatch
EMAIL_RE_fullmatch(e) ==
    /\ \A i \in 1..Len(e) : e[i] \notin Whitespace
    /\ \E k \in 2..Len(e) :
        /\ e[k] = "@"
        /\ \A i \in 1..Len(e) : i # k => e[i] # "@"
        /\ \E j \in (k + 2)..(Len(e) - 1) : e[j] = "."

HexDigits ==
    <<"0", "1", "2", "3", "4", "5", "6", "7", "8", "9",
      "a", "b", "c", "d", "e", "f">>

HexValue(c) == CHOOSE v \in 0..15 : HexDigits[v + 1] = c

\* bytes.hex()
Hex(bytes) ==
    [i \in 1..(2 * Len(bytes)) |->
        IF i % 2 = 1
        THEN HexDigits[(bytes[(i + 1) \div 2] \div 16) + 1]
        ELSE HexDigits[(bytes[i \div 2] % 16) + 1]]

\* bytes.fromhex()
FromHex(text) ==
    [i \in 1..(Len(text) \div 2) |->
        16 * HexValue(text[2 * i - 1]) + HexValue(text[2 * i])]

\* ord() of the characters passwords are made of.
Ord(c) ==
    CASE c = "x" -> 120
      [] c = "y" -> 121
      [] OTHER -> 63

\* str.encode("utf-8")
Utf8(plain) == [i \in 1..Len(plain) |-> Ord(plain[i])]

\* hashlib.sha256(data).hexdigest(): a digest stands for its preimage.
Sha256Hex(data) == [sha256 |-> data]

\* os.urandom(16): the byte strings it may return.
Urandom == {Repeat(0, SaltLen), Repeat(171, SaltLen)}

\* _hash_password(plain, salt): the pairs (salt hex, digest) it may return.
\* "salt or os.urandom(16)" draws a salt when none, or an empty one, is given.
hash_password(plain, salt) ==
    {<<Hex(sl), Sha256Hex(sl \o Utf8(plain))>> :
        sl \in (IF salt = None \/ salt = Some(<<>>) THEN Urandom ELSE {salt[1]})}

\* User.verify_password
verify_password(password) ==
    \E h \in hash_password(password, Some(FromHex(pw_salt))) :
        h[2] = pw_digest

PwLens == {0, MinPasswordLen - 1, MinPasswordLen, MaxPwLen}

Passwords == {Repeat(c, n) : c \in {"x", "y"}, n \in PwLens}

\* The digest replaced and the salt kept.
store_digest_only(h) ==
    /\ pw_salt' = pw_salt
    /\ pw_digest' = h[2]

\* User.set_password, line 94: salt and digest are assigned together.
store_credential(h) ==
    /\ pw_salt' = h[1]
    /\ pw_digest' = h[2]

\* User.set_password
set_password(new_password) ==
    /\ IF Len(new_password) < MinPasswordLen
       THEN /\ ret' = [Call("set_password") EXCEPT
                           !.password = new_password, !.raised = "ValueError"]
            /\ UNCHANGED <<pw_salt, pw_digest, accepted>>
       ELSE /\ \E h \in hash_password(new_password, None) : store_credential(h)
            /\ accepted' = new_password
            /\ ret' = [Call("set_password") EXCEPT !.password = new_password]
    /\ UNCHANGED <<methods, email, orders, cart, last_login_at, now>>

\* The comparison without the strip.
login_ok_unstripped(e, password) ==
    email = Lower(e) /\ verify_password(password)

\* User.login, line 98
login_ok(e, password) ==
    email = Lower(Strip(e)) /\ verify_password(password)

\* User.login
login(e, password) ==
    /\ last_login_at' = IF login_ok(e, password) THEN Some(now) ELSE last_login_at
    /\ ret' = [Call("login") EXCEPT
                   !.text = e, !.password = password, !.ok = login_ok(e, password)]
    /\ UNCHANGED <<methods, email, pw_salt, pw_digest, orders, cart, now, accepted>>

\* Person.change_email
change_email(new_email) ==
    /\ IF ~EMAIL_RE_fullmatch(new_email)
       THEN /\ ret' = [Call("change_email") EXCEPT
                           !.text = new_email, !.raised = "ValueError"]
            /\ UNCHANGED email
       ELSE /\ email' = Lower(Strip(new_email))
            /\ ret' = [Call("change_email") EXCEPT !.text = new_email]
    /\ UNCHANGED <<methods, pw_salt, pw_digest, orders, cart, last_login_at,
                   now, accepted>>

\* Time passes: datetime.utcnow() returns a later time.
Tick ==
    /\ now < MaxClock
    /\ now' = now + 1
    /\ ret' = Call("tick")
    /\ UNCHANGED <<methods, userVars>>

-----------------------------------------------------------------------------
(* The cart and the order (models/shopping.py), after the specification *)

Candies == {"gum", "mint"}

\* Candy.price, in cents
Price(candy) == IF candy = "gum" THEN 250 ELSE 75

Line(candy, quantity) == [item |-> candy, quantity |-> quantity]

HasLine(lines, candy) == \E i \in 1..Len(lines) : lines[i].item = candy

\* ShoppingCart.add_item: quantities of one item add up, a new item gets a
\* new line at the end.
add_item(lines, candy, quantity) ==
    IF quantity <= 0
    THEN [raised |-> "ValueError", lines |-> lines]
    ELSE [raised |-> "",
          lines |-> IF HasLine(lines, candy)
                    THEN [i \in 1..Len(lines) |->
                            IF lines[i].item = candy
                            THEN Line(candy, lines[i].quantity + quantity)
                            ELSE lines[i]]
                    ELSE Append(lines, Line(candy, quantity))]

\* ShoppingCart.is_empty
is_empty(lines) == \A i \in 1..Len(lines) : lines[i].quantity <= 0

\* The sum over the lines of price * quantity.
RECURSIVE total_of(_)
total_of(lines) ==
    IF lines = <<>> THEN 0
    ELSE Price(Head(lines).item) * Head(lines).quantity + total_of(Tail(lines))

\* Pieces of candy on the lines.
RECURSIVE items_of(_)
items_of(lines) ==
    IF lines = <<>> THEN 0 ELSE Head(lines).quantity + items_of(Tail(lines))

\* ShoppingCart.create_order: what it may do to the payment method, and the
\* Order it returns unless process_payment raised.
create_order(lines, pm) ==
    {[pm |-> o.pm, raised |-> o.raised,
      order |-> IF o.raised # "" THEN NoOrder
                ELSE [total_amount |-> total_of(lines), lines |-> lines,
                      payment_outcome |-> IF o.ok THEN "succeeded" ELSE "failed"]]
        : o \in process_payment_of(pm, total_of(lines))}

\* ShoppingCart.clear
clear(lines) == <<>>

-----------------------------------------------------------------------------
(* models/person.py: the cart and the checkout *)

\* User._ensure_cart: the cart after the call.
ensure_cart == IF cart = None THEN Some(<<>>) ELSE cart

\* Pieces of candy in the order history.
RECURSIVE items_ordered(_)
items_ordered(os) ==
    IF os = <<>> THEN 0 ELSE items_of(Head(os).lines) + items_ordered(Tail(os))

ItemsOrdered == items_ordered(orders)

\* The guard letting a quantity of 0 through.
rejects_negative(quantity) == quantity < 0

\* User.add_to_cart, line 112
rejects_quantity(quantity) == quantity <= 0

\* User.add_to_cart
add_to_cart(candy, quantity) ==
    /\ IF rejects_quantity(quantity)
       THEN /\ ret' = [Call("add_to_cart") EXCEPT
                           !.text = <<candy>>, !.quantity = quantity,
                           !.raised = "ValueError"]
            /\ UNCHANGED cart
       ELSE LET added == add_item(ensure_cart[1], candy, quantity)
            IN  /\ ItemsOrdered + items_of(added.lines) <= MaxItems
                /\ cart' = Some(added.lines)
                /\ ret' = [Call("add_to_cart") EXCEPT
                               !.text = <<candy>>, !.quantity = quantity,
                               !.raised = added.raised]
    /\ UNCHANGED <<methods, email, pw_salt, pw_digest, orders, last_login_at,
                   now, accepted>>

\* The guard without the is_empty() test.
nothing_to_buy_if_absent == cart = None

\* User.checkout, line 121
nothing_to_buy == cart = None \/ is_empty(cart[1])

\* The append without the clear.
record_order_keep_cart(order) ==
    /\ orders' = Append(orders, order)
    /\ cart' = cart

\* User.checkout, lines 124-125
record_order(order) ==
    /\ orders' = Append(orders, order)
    /\ cart' = Some(clear(cart[1]))

\* User.checkout
checkout(m) ==
    /\ IF nothing_to_buy
       THEN /\ ret' = [Call("checkout") EXCEPT !.method = m, !.raised = "ValueError"]
            /\ UNCHANGED <<methods, orders, cart>>
       ELSE \E o \in create_order(cart[1], methods[m]) :
                /\ methods' = [methods EXCEPT ![m] = o.pm]
                /\ ret' = [Call("checkout") EXCEPT
                               !.method = m, !.raised = o.raised, !.order = o.order]
                /\ IF o.raised # ""
                   THEN UNCHANGED <<orders, cart>>
                   ELSE record_order(o.order)
    /\ UNCHANGED <<email, pw_salt, pw_digest, last_login_at, now, accepted>>

-----------------------------------------------------------------------------
(* Construction *)

EmailLower == <<"a", "@", "b", ".", "c">>
EmailUpper == <<"A", "@", "B", ".", "C">>
EmailPadded == <<" ", "a", "@", "b", ".", "c", " ">>
EmailOther == <<"c", "@", "b", ".", "a">>
EmailOtherUpper == <<"C", "@", "b", ".", "a">>
EmailNoAt == <<"a", ".", "b", ".", "c">>

PayPalGood == <<"a", "@", "b", ".", "c", "o">>
PayPalBad == <<"a", "b", ".", "c", "o">>

CardGood == Repeat("4", 16)
CardShort == Repeat("4", MinCardDigits - 1)

\* User.__init__ (and Person.__init__, which rejects a malformed email)
UserInit(e, password, salts) ==
    /\ EMAIL_RE_fullmatch(e)
    /\ email = Lower(Strip(e))
    /\ \E h \in hash_password(password, None) :
        /\ FromHex(h[1]) \in salts
        /\ pw_salt = h[1]
        /\ pw_digest = h[2]
    /\ accepted = password
    /\ orders = <<>>
    /\ cart = None
    /\ last_login_at = None

Start ==
    /\ now = 0
    /\ ret = Call("init")

-----------------------------------------------------------------------------
(* Payment methods on their own *)

InitPayment ==
    /\ methods \in {[m1 |-> CreditCard(CardGood), m2 |-> PayPal(PayPalBad)],
                    [m1 |-> CreditCard(CardShort), m2 |-> PayPal(PayPalGood)]}
    /\ UserInit(EmailLower, Repeat("x", MinPasswordLen), {Repeat(0, SaltLen)})
    /\ Start

NextPayment ==
    \E m \in MethodIds :
        \/ \E amount \in Amounts : process_payment(m, amount)
        \/ \E amount \in Amounts : refund(m, amount)
        \/ \E number \in {CardGood, CardShort} : assign_card_number(m, number)
        \/ \E e \in {PayPalGood, PayPalBad} : assign_email(m, e)

SpecPayment == InitPayment /\ [][NextPayment]_vars

-----------------------------------------------------------------------------
(* The credential *)

InitCredential ==
    /\ methods = [m \in MethodIds |-> CreditCard(CardGood)]
    /\ \E e \in {EmailLower, EmailUpper}, password \in Passwords :
        UserInit(e, password, Urandom)
    /\ Start

LoginEmails == {EmailLower, EmailUpper, EmailPadded, EmailOther}

NextCredential ==
    \/ \E e \in LoginEmails, password \in Passwords : login(e, password)
    \/ \E password \in Passwords : set_password(password)
    \/ \E e \in {EmailOtherUpper, EmailNoAt, EmailPadded} : change_email(e)
    \/ Tick

SpecCredential == InitCredential /\ [][NextCredential]_vars

-----------------------------------------------------------------------------
(* The cart and the checkout *)

InitCheckout ==
    /\ methods \in [MethodIds ->
                      {CreditCard(CardGood), CreditCard(CardShort),
                       PayPal(PayPalGood), PayPal(PayPalBad),
                       PaymentMethod("Voucher")}]
    /\ methods["m1"].kind = "CreditCard"
    /\ methods["m2"].kind # "CreditCard"
    /\ UserInit(EmailLower, Repeat("x", MinPasswordLen), {Repeat(0, SaltLen)})
    /\ Start

Quantities == {0 - 1, 0, 1, 2}

NextCheckout ==
    \/ \E candy \in Candies, quantity \in Quantities : add_to_cart(candy, quantity)
    \/ \E m \in MethodIds : checkout(m)

SpecCheckout == InitCheckout /\ [][NextCheckout]_vars

-----------------------------------------------------------------------------
(* Card numbers *)

CardLens ==
    {MinCardDigits - 1, MinCardDigits, 16, MaxCardDigits, MaxCardDigits + 1}

\* n ASCII digits, not all the same.
Digits(n) == [i \in 1..n |-> DigitChars[(i % 10) + 1]]

OddChars == {"a", "-", " ", "U+0663", "U+FF11"}

CardNumbers ==
    {Digits(n) : n \in CardLens}
        \cup {[Digits(n) EXCEPT ![k] = c] :
                n \in CardLens, k \in {1, MinCardDigits - 1}, c \in OddChars}

InitCard ==
    /\ \E number \in CardNumbers :
        methods = [m1 |-> CreditCard(number), m2 |-> PayPal(PayPalGood)]
    /\ UserInit(EmailLower, Repeat("x", MinPasswordLen), {Repeat(0, SaltLen)})
    /\ Start

NextCard ==
    \E m \in MethodIds, amount \in Amounts : process_payment(m, amount)

SpecCard == InitCard /\ [][NextCard]_vars

-----------------------------------------------------------------------------
(* Properties *)

Last(seq) == seq[Len(seq)]

\* seq2 is seq1 with one more element at the end.
GrewByOne(seq1, seq2) ==
    /\ Len(seq2) = Len(seq1) + 1
    /\ SubSeq(seq2, 1, Len(seq1)) = seq1

CartAbsentOrEmpty ==
    cart = None \/ \A i \in 1..Len(cart[1]) : cart[1][i].quantity <= 0

\* C1: a checkout with the cart absent or empty fails with the empty-cart
\* error and changes neither the order history, nor the cart, nor any payment
\* method's transaction history.
C1_EmptyCheckoutFails ==
    [][(ret'.op = "checkout" /\ CartAbsentOrEmpty) =>
          /\ ret'.raised = "ValueError"
          /\ ret'.order = NoOrder
          /\ orders' = orders
          /\ cart' = cart
          /\ methods' = methods]_vars

C1_Witness ==
    /\ ret.op = "checkout"
    /\ ret.raised = "ValueError"
    /\ cart = Some(<<>>)
    /\ Len(orders) >= 1

\* C2: a checkout either appends the returned Order at the end of the order
\* history and leaves the cart empty, or raises and changes neither; with a
\* cart that is not empty and a credit card or a PayPal account it does the
\* former, whether the payment succeeded or was declined.
C2_CheckoutAllOrNothing ==
    [][ret'.op = "checkout" =>
          /\ \/ /\ ret'.raised = ""
                /\ GrewByOne(orders, orders')
                /\ Last(orders') = ret'.order
                /\ cart' = Some(<<>>)
             \/ /\ ret'.raised # ""
                /\ orders' = orders
                /\ cart' = cart
          /\ (~CartAbsentOrEmpty /\ methods[ret'.method].kind # "PaymentMethod")
                => ret'.raised = ""]_vars

C2_Witness ==
    /\ ret.op = "checkout"
    /\ ret.raised = ""
    /\ ret.order.payment_outcome = "failed"
    /\ Len(orders) = 2
    /\ orders[1].payment_outcome = "succeeded"
    /\ cart = Some(<<>>)

\* C3: a checkout of a cart that is not empty yields an Order whose payment
\* succeeded iff the payment method is valid; on success the method's
\* transaction history gains one payment record of the Order's total, the
\* sum of price * quantity over the cart's lines; on failure the transaction
\* history is unchanged, and the Order is still recorded and the cart cleared.
C3_OutcomeFollowsValidity ==
    [][(ret'.op = "checkout" /\ ~CartAbsentOrEmpty /\ ret'.raised = "") =>
          LET before == methods[ret'.method]
              after == methods'[ret'.method]
              order == ret'.order
          IN  /\ order.total_amount = total_of(cart[1])
              /\ (order.payment_outcome = "succeeded") <=> before.is_valid
              /\ order.payment_outcome \in {"succeeded", "failed"}
              /\ before.is_valid =>
                    /\ GrewByOne(before.transaction_history,
                                 after.transaction_history)
                    /\ Last(after.transaction_history).type = "payment"
                    /\ Last(after.transaction_history).amount = order.total_amount
              /\ ~before.is_valid =>
                    after.transaction_history = before.transaction_history
              /\ Last(orders') = order
              /\ cart' = Some(<<>>)
              /\ \A m \in MethodIds \ {ret'.method} : methods'[m] = methods[m]]_vars

C3_Witness ==
    /\ ret.op = "checkout"
    /\ Len(orders) = 2
    /\ orders[1].payment_outcome = "succeeded"
    /\ orders[1].total_amount = 500
    /\ Len(methods["m1"].transaction_history) = 1
    /\ orders[2].payment_outcome = "failed"
    /\ ~methods[ret.method].is_valid
    /\ methods[ret.method].transaction_history = <<>>
    /\ cart = Some(<<>>)

\* C4: process_payment of a credit card or a PayPal account goes by the
\* is_valid flag alone, which nothing changes after construction, whatever
\* card_number or email hold by now: with the flag false it returns False and
\* the transaction history is unchanged; with the flag true it returns True
\* and one payment record of that amount, with a receipt id not seen before,
\* is added after the earlier records.
C4_PaymentFollowsFlag ==
    [][/\ \A m \in MethodIds : methods'[m].is_valid = methods[m].is_valid
       /\ ret'.op = "process_payment" =>
            LET before == methods[ret'.method]
                after == methods'[ret'.method]
            IN  /\ before.kind \in {"CreditCard", "PayPal"}
                /\ ret'.raised = ""
                /\ ret'.ok = before.is_valid
                /\ ~before.is_valid => after = before
                /\ before.is_valid =>
                      /\ GrewByOne(before.transaction_history,
                                   after.transaction_history)
                      /\ Last(after.transaction_history).type = "payment"
                      /\ Last(after.transaction_history).amount = ret'.amount
                      /\ Last(after.transaction_history).receipt
                            \notin IssuedReceipts
                      /\ after = [before EXCEPT !.transaction_history =
                                                  after.transaction_history]
                /\ \A m \in MethodIds \ {ret'.method} :
                      methods'[m] = methods[m]]_vars

\* A card whose number was made invalid after construction is charged, and
\* one whose number was made valid is still declined.
C4_Witness ==
    /\ ret.op = "process_payment"
    /\ methods[ret.method].kind = "CreditCard"
    /\ ret.ok
    /\ ~validate_card(methods[ret.method].card_number)
    /\ Len(methods[ret.method].transaction_history) >= 2

DigitValue(c) == CHOOSE v \in 0..9 : DigitChars[v + 1] = c

IsDigits(text) ==
    /\ text # <<>>
    /\ \A i \in 1..Len(text) : \E v \in 0..9 : DigitChars[v + 1] = text[i]

\* The number a string of decimal digits denotes.
RECURSIVE NumberOf(_)
NumberOf(text) ==
    IF text = <<>> THEN 0
    ELSE 10 * NumberOf(SubSeq(text, 1, Len(text) - 1)) + DigitValue(Last(text))

\* The text reads "Refund of $<dollars>.<two digits> issued. Receipt ID:
\* <receipt>" for this amount of cents and this receipt id.
IsConfirmation(text, amount, receipt) ==
    \E dot \in 3..Len(text), mark \in 6..Len(text) :
        /\ text[1] = "Refund of $"
        /\ text[dot] = "."
        /\ mark = dot + 3
        /\ text[mark] = " issued. Receipt ID: "
        /\ IsDigits(SubSeq(text, 2, dot - 1))
        /\ IsDigits(SubSeq(text, dot + 1, dot + 2))
        /\ IsDigits(SubSeq(text, mark + 1, Len(text)))
        /\ 100 * NumberOf(SubSeq(text, 2, dot - 1))
               + NumberOf(SubSeq(text, dot + 1, dot + 2)) = amount
        /\ NumberOf(SubSeq(text, mark + 1, Len(text))) = receipt

\* C5: refund on any payment method, valid or not, adds one refund record
\* of that amount with a receipt id not seen before after the earlier
\* records, changes nothing else of the method, and returns a text holding
\* the amount and that receipt id.
C5_RefundAlwaysRecords ==
    [][ret'.op = "refund" =>
          LET before == methods[ret'.method]
              after == methods'[ret'.method]
          IN  /\ GrewByOne(before.transaction_history, after.transaction_history)
              /\ Last(after.transaction_history).type = "refund"
              /\ Last(after.transaction_history).amount = ret'.amount
              /\ Last(after.transaction_history).receipt \notin IssuedReceipts
              /\ after = [before EXCEPT !.transaction_history =
                                          after.transaction_history]
              /\ ret'.raised = ""
              /\ IsConfirmation(ret'.out, ret'.amount,
                                Last(after.transaction_history).receipt)
              /\ \A m \in MethodIds \ {ret'.method} :
                    methods'[m] = methods[m]]_vars

C5_Witness ==
    /\ ret.op = "refund"
    /\ ~methods[ret.method].is_valid
    /\ Len(methods[ret.method].transaction_history) >= 2
    /\ ret.amount = 1250

\* The places <<method, index>> of all records.
AllRecords ==
    UNION {{<<m, i>> : i \in 1..Len(methods[m].transaction_history)} :
              m \in MethodIds}

\* C9: no two records, of one transaction history or of two, carry the same
\* receipt id.
C9_ReceiptsDistinct ==
    \A x \in AllRecords, y \in AllRecords :
        x # y =>
            methods[x[1]].transaction_history[x[2]].receipt
                # methods[y[1]].transaction_history[y[2]].receipt

C9_Witness ==
    /\ Len(methods["m1"].transaction_history) >= 1
    /\ Len(methods["m2"].transaction_history) >= 2
    /\ \E i \in 1..Len(methods["m2"].transaction_history) :
          methods["m2"].transaction_history[i].type = "payment"
    /\ \E i \in 1..Len(methods["m2"].transaction_history) :
          methods["m2"].transaction_history[i].type = "refund"

\* C6: login returns true iff the email given, stripped and lower-cased, is
\* the stored email and verify_password accepts the password; a successful
\* login changes last_login_at, to the current time, and nothing else; a
\* failed login changes nothing.
C6_LoginContract ==
    [][ret'.op = "login" =>
          /\ ret'.ok <=> (/\ Lower(Strip(ret'.text)) = email
                          /\ verify_password(ret'.password))
          /\ ret'.raised = ""
          /\ ret'.ok => last_login_at' = Some(now)
          /\ ~ret'.ok => last_login_at' = last_login_at
          /\ UNCHANGED <<methods, email, pw_salt, pw_digest, orders, cart>>]_vars

C6_Witness ==
    /\ ret.op = "login"
    /\ ret.ok
    /\ ret.text = EmailPadded
    /\ email = EmailLower
    /\ now = 1
    /\ last_login_at = Some(1)

\* C7: verify_password accepts exactly the password accepted last, the
\* constructor's or that of the last set_password of 6 characters or more;
\* set_password with fewer fails and leaves salt and digest alone.
C7_LastAcceptedPasswordVerifies ==
    /\ [](\A p \in Passwords : verify_password(p) <=> p = accepted)
    /\ [][/\ ret'.op # "set_password" => UNCHANGED <<pw_salt, pw_digest, accepted>>
          /\ ret'.op = "set_password" =>
                IF Len(ret'.password) < 6
                THEN /\ ret'.raised = "ValueError"
                     /\ UNCHANGED <<pw_salt, pw_digest, accepted>>
                ELSE /\ ret'.raised = ""
                     /\ accepted' = ret'.password]_vars

\* A password was replaced under a new salt, and a short one refused since.
C7_Witness ==
    /\ ret.op = "set_password"
    /\ ret.raised = "ValueError"
    /\ Len(ret.password) = 5
    /\ accepted = Repeat("y", 6)
    /\ verify_password(Repeat("y", 6))
    /\ ~verify_password(Repeat("x", 6))
    /\ pw_salt = Hex(Repeat(171, SaltLen))

\* C8: add_to_cart with a quantity of 0 or less fails with the validation
\* error and leaves the cart as it was, lines and quantities, and absent if
\* it was absent.
C8_BadQuantityRejected ==
    [][(ret'.op = "add_to_cart" /\ ret'.quantity <= 0) =>
          /\ ret'.raised = "ValueError"
          /\ cart' = cart
          /\ orders' = orders
          /\ methods' = methods]_vars

C8_Witness ==
    /\ ret.op = "add_to_cart"
    /\ ret.quantity = 0
    /\ ret.raised = "ValueError"
    /\ cart = None

\* C10: a credit card is valid iff its number is 13 to 19 ASCII digits and
\* nothing else.
C10_ValidIffAsciiDigits ==
    \A m \in MethodIds :
        methods[m].kind = "CreditCard" =>
            (methods[m].is_valid <=>
                /\ Len(methods[m].card_number) \in 13..19
                /\ \A i \in 1..Len(methods[m].card_number) :
                      methods[m].card_number[i] \in AsciiDigits)

====
